---- MODULE Spec2Model ----
(***************************************************************************)
(* Model of ZeusFU/live_analyzer: the two Streamlit scripts                *)
(*   src/risk_analyzer.py          (bonus qualification and exposure)      *)
(*   src/multi_trader_analyzer.py  (per-asset and per-day statistics)      *)
(*                                                                         *)
(* Conventions.                                                            *)
(*  - A string is a sequence of one-character strings.                     *)
(*  - A timestamp is a slot number; SlotsPerDay consecutive slots make a   *)
(*    calendar day, so `.dt.date` is ts \div SlotsPerDay.  A missing       *)
(*    timestamp (pandas NaT) is the value NaT.                             *)
(*  - PnL values are integers.  Percent arithmetic is kept exact by        *)
(*    holding every derived money amount in hundredths (the suffix _c):    *)
(*    x * (p / 100) is the integer x * p in hundredths.                    *)
(*  - A Python exception is the value of an operator that has the field    *)
(*    ok = FALSE; `None` is the record None.                               *)
(***************************************************************************)
EXTENDS Integers, Sequences, FiniteSets, TLC

VARIABLES
    \* extract_root_symbol applied once and twice
    symbol, roots,
    \* one currency string through both PnL cleaners
    pnl_raw, pnl_multi, pnl_risk,
    \* one call of risk_analyzer.analyze_trader and the call before it
    file, min_days, daily_threshold, total_threshold, result, prev,
    \* one call of multi_trader_analyzer.analyze_trader
    trades, metrics,
    \* the scripts' batch runs
    app, uploaded_files, bonus_pct, min_profit_days, daily_profit_target,
    total_profit_target, i, results, all_metrics, errors, summary, pc

symbolVars == <<symbol, roots>>
pnlVars    == <<pnl_raw, pnl_multi, pnl_risk>>
traderVars == <<file, min_days, daily_threshold, total_threshold, result, prev>>
multiVars  == <<trades, metrics>>
sidebarVars == <<min_profit_days, daily_profit_target, total_profit_target>>
batchVars  == <<app, uploaded_files, sidebarVars, i, results, all_metrics,
                errors, summary, pc>>
vars == <<symbolVars, pnlVars, traderVars, multiVars, bonus_pct, batchVars>>

----------------------------------------------------------------------------
(* Bounds of the model *)

MaxSymLen == 4      \* longest instrument symbol
MaxPnlLen == 4      \* longest currency string
MaxRows   == 2      \* most rows in one trader file
MaxFiles  == 2      \* most files in one upload
SlotsPerDay == 2    \* timestamps told apart within one calendar day

----------------------------------------------------------------------------
(* Values *)

None == [none |-> TRUE]
NaN  == [nan |-> TRUE]
NaT  == -1

Digits  == {"0", "1", "5"}
Letters == {"N", "Z"}

IsDigit(c) == c \in Digits
IsAlpha(c) == c \in Letters

Strings(alphabet, n) == UNION {[1..k -> alphabet] : k \in 0..n}

RECURSIVE SumSeq(_)
SumSeq(s) == IF s = <<>> THEN 0 ELSE Head(s) + SumSeq(Tail(s))

----------------------------------------------------------------------------
(* Numbers that are not integers.  A quotient is the fraction [num, den]   *)
(* in lowest terms with den > 0, so that equal numbers are equal values;    *)
(* the mean of nothing is NaN.  No input of the model makes a divisor zero. *)

Abs(x) == IF x < 0 THEN 0 - x ELSE x

RECURSIVE GCD(_, _)
GCD(a, b) == IF b = 0 THEN a ELSE GCD(b, a % b)

Rat(n, d) ==
    LET g == GCD(Abs(n), Abs(d))
        s == IF d < 0 THEN 0 - 1 ELSE 1
    IN  [num |-> (s * n) \div g, den |-> (s * d) \div g]

RatAdd(a, b) == Rat(a.num * b.den + b.num * a.den, a.den * b.den)

RECURSIVE RatSum(_)
RatSum(s) == IF s = <<>> THEN Rat(0, 1) ELSE RatAdd(Head(s), RatSum(Tail(s)))

\* Series.mean() / np.mean over quotients
RatMean(s) == IF s = <<>> THEN NaN
              ELSE Rat(RatSum(s).num, RatSum(s).den * Len(s))

\* Series.mean() over integers
Mean(s) == IF s = <<>> THEN NaN ELSE Rat(SumSeq(s), Len(s))

----------------------------------------------------------------------------
(* multi_trader_analyzer.extract_root_symbol                               *)

\* Whether \d+[A-Za-z]*$ matches s from position p to the end of s.
SuffixMatchesAt(s, p) ==
    /\ p \in 1..Len(s)
    /\ IsDigit(s[p])
    /\ \E q \in p..Len(s) :
          /\ \A k \in p..q : IsDigit(s[k])
          /\ \A k \in (q + 1)..Len(s) : IsAlpha(s[k])

\* re.sub(r'\d+[A-Za-z]*$', '', symbol): the pattern is anchored at the end, so
\* at most one match exists in the scan; it starts at the leftmost position from
\* which the rest of the string is digits followed by letters.
extract_root_symbol(s) ==
    LET starts == {p \in 1..Len(s) : SuffixMatchesAt(s, p)}
    IN  IF starts = {} THEN s
        ELSE LET p == CHOOSE m \in starts : \A n \in starts : m <= n
             IN  SubSeq(s, 1, p - 1)

----------------------------------------------------------------------------
(* PnL cleaning                                                            *)

Remove(s, chars) == SelectSeq(s, LAMBDA c : c \notin chars)

RECURSIVE DigitsValue(_)
DigitsValue(s) ==
    IF s = <<>> THEN 0
    ELSE 10 * DigitsValue(SubSeq(s, 1, Len(s) - 1))
         + (CASE s[Len(s)] = "0" -> 0 [] s[Len(s)] = "1" -> 1 [] s[Len(s)] = "5" -> 5)

IsDigitString(s) == Len(s) >= 1 /\ \A k \in 1..Len(s) : IsDigit(s[k])

\* Python's float(str) on the characters the model has: an optional minus sign
\* and at least one digit; anything else raises ValueError.
float(s) ==
    IF IsDigitString(s) THEN [ok |-> TRUE, v |-> DigitsValue(s)]
    ELSE IF Len(s) >= 2 /\ s[1] = "-" /\ IsDigitString(Tail(s))
         THEN [ok |-> TRUE, v |-> 0 - DigitsValue(Tail(s))]
         ELSE [ok |-> FALSE]

Contains(s, c) == \E k \in 1..Len(s) : s[k] = c

\* multi_trader_analyzer.clean_pnl on a str argument
clean_pnl(pnl) ==
    LET p1 == Remove(pnl, {"$", ","})
    IN  IF Contains(p1, "(") /\ Contains(p1, ")")
        THEN LET f == float(Remove(p1, {"(", ")"}))
             IN  IF f.ok THEN [ok |-> TRUE, v |-> 0 - f.v] ELSE f
        ELSE float(p1)

\* risk_analyzer: .str.replace('[$,()]', '', regex=True).astype(float), one cell
risk_clean_pnl(pnl) == float(Remove(pnl, {"$", ",", "(", ")"}))

----------------------------------------------------------------------------
(* Trader files                                                            *)

Ts(day, slot) == day * SlotsPerDay + slot

\* pd.to_datetime(...).dt.date of one cell
date(ts) == IF ts = NaT THEN NaT ELSE ts \div SlotsPerDay

Row(sym, q, bp, bought, sold, p) ==
    [symbol |-> sym, qty |-> q, buyPrice |-> bp, boughtTimestamp |-> bought,
     soldTimestamp |-> sold, pnl |-> p]

\* UploadedFile.name.split('.')[0]
RECURSIVE BeforeDot(_)
BeforeDot(s) ==
    IF s = <<>> \/ Head(s) = "." THEN <<>> ELSE <<Head(s)>> \o BeforeDot(Tail(s))

RECURSIVE SortedSeq(_)
SortedSeq(S) ==
    IF S = {} THEN <<>>
    ELSE LET m == CHOOSE x \in S : \A y \in S : x <= y
         IN  <<m>> \o SortedSeq(S \ {m})

Max(S) == CHOOSE x \in S : \A y \in S : y <= x

\* frame[field]: one column of a frame, a frame being the sequence of its rows
Column(frame, field) == [k \in 1..Len(frame) |-> frame[k][field]]

----------------------------------------------------------------------------
(* risk_analyzer.analyze_trader                                            *)

CompanySharePct == 10

\* pd.read_csv infers a numeric dtype for a column in which every cell is a
\* number; such a column has no .str accessor (AttributeError).
PnlColumnIsNumeric(rows) == \A k \in 1..Len(rows) : float(rows[k].pnl).ok

\* df.groupby('soldDate').agg(daily_pnl=('pnl','sum'), trades=('pnl','count'))
\* .reset_index(): one row per sold date in ascending order; groupby drops the
\* rows whose key is missing (dropna=True is the default).
GroupBySoldDate(soldDate, pnl) ==
    LET keys == SortedSeq({soldDate[k] : k \in 1..Len(soldDate)} \ {NaT})
        frame == [k \in 1..Len(pnl) |-> [soldDate |-> soldDate[k], pnl |-> pnl[k]]]
        group(d) == SelectSeq(frame, LAMBDA e : e.soldDate = d)
    IN  [n \in 1..Len(keys) |->
            [soldDate  |-> keys[n],
             daily_pnl |-> SumSeq(Column(group(keys[n]), "pnl")),
             trades    |-> Len(group(keys[n]))]]

\* The comparison with > in place of >=: a day exactly at the target not counted.
MetTargetStrict(daily_pnl, required_daily_profit_c) ==
    daily_pnl * 100 > required_daily_profit_c

\* daily['met_target'] = daily['daily_pnl'] >= required_daily_profit
MetTarget(daily_pnl, required_daily_profit_c) ==
    daily_pnl * 100 >= required_daily_profit_c

\* qualifies = (len(valid_days) >= min_days and
\*              total_profit >= initial_balance * total_threshold)
Qualifies(n_valid_days, total_profit, initial_balance, p_min_days, p_total_threshold) ==
    /\ n_valid_days >= p_min_days
    /\ total_profit * 100 >= initial_balance * p_total_threshold

\* The body of the try block: [ok |-> FALSE, ...] when it raises.
AnalyzeTraderBody(f, p_min_days, p_daily_threshold, p_total_threshold) ==
    LET df == f.rows
    IN
    IF PnlColumnIsNumeric(df) THEN [ok |-> FALSE, exc |-> "AttributeError"]
    ELSE IF \E k \in 1..Len(df) : ~risk_clean_pnl(df[k].pnl).ok
    THEN [ok |-> FALSE, exc |-> "ValueError"]
    ELSE
    LET pnl == [k \in 1..Len(df) |-> risk_clean_pnl(df[k].pnl).v]
        soldDate == [k \in 1..Len(df) |-> date(df[k].soldTimestamp)]
        position_size == [k \in 1..Len(df) |-> df[k].qty * df[k].buyPrice]
        initial_balance == Max({position_size[k] : k \in 1..Len(df)})
        daily == GroupBySoldDate(soldDate, pnl)
        required_daily_profit_c == initial_balance * p_daily_threshold
        met_target == [n \in 1..Len(daily) |->
                          MetTarget(daily[n].daily_pnl, required_daily_profit_c)]
        valid_days == {n \in 1..Len(daily) : met_target[n]}
        total_profit == SumSeq(Column(daily, "daily_pnl"))
        qualifies == Qualifies(Cardinality(valid_days), total_profit,
                               initial_balance, p_min_days, p_total_threshold)
        bonus_amount_c == IF qualifies THEN total_profit * bonus_pct ELSE 0
        company_profit_share_c ==
            IF qualifies THEN total_profit * CompanySharePct ELSE 0
        net_cost_c == IF qualifies THEN bonus_amount_c - company_profit_share_c
                      ELSE 0
    IN  [ok |-> TRUE,
         value |->
           [trader |-> BeforeDot(f.name),
            initial_balance |-> initial_balance,
            qualifies |-> qualifies,
            total_profit |-> total_profit,
            bonus_cost_c |-> bonus_amount_c,
            company_profit_c |-> company_profit_share_c,
            net_cost_c |-> net_cost_c,
            \* (company_profit_share - bonus_amount) / initial_balance * 100
            roi |-> Rat(company_profit_share_c - bonus_amount_c, initial_balance)]]

\* try: ... except Exception as e: st.error(f"Error analyzing {file.name}: ...")
\* `ret` is the return value, `st_error` the error reports it displays.
analyze_trader(f, p_min_days, p_daily_threshold, p_total_threshold) ==
    LET body == AnalyzeTraderBody(f, p_min_days, p_daily_threshold, p_total_threshold)
    IN  IF body.ok THEN [ret |-> body.value, st_error |-> <<>>]
        ELSE [ret |-> None, st_error |-> <<[file |-> f.name, exc |-> body.exc]>>]

----------------------------------------------------------------------------
(* multi_trader_analyzer.analyze_trader                                    *)

\* trades[trades['pnl'] < 0] and trades[trades['pnl'] > 0]
Losing(rows)  == SelectSeq(rows, LAMBDA r : r.pnl < 0)
Winning(rows) == SelectSeq(rows, LAMBDA r : r.pnl > 0)

\* rows.groupby('Root Symbol')[col].mean().to_dict()
MeanPerAsset(rows, col) ==
    [a \in {rows[k].root : k \in 1..Len(rows)} |->
        Mean(Column(SelectSeq(rows, LAMBDA r : r.root = a), col))]

\* rows.groupby(trades['boughtTimestamp'].dt.date)['pnl'].sum().mean()
DaysMetric(rows) ==
    LET keys == SortedSeq({date(rows[k].boughtTimestamp) : k \in 1..Len(rows)} \ {NaT})
        sums == [n \in 1..Len(keys) |->
                    SumSeq(Column(SelectSeq(rows,
                              LAMBDA r : date(r.boughtTimestamp) = keys[n]), "pnl"))]
    IN  Mean(sums)

Min(S) == CHOOSE x \in S : \A y \in S : x <= y

\* pd.read_csv followed by analyze_trader(trades): [ok |-> FALSE, ...] when
\* either raises.  A pnl column read as numbers passes clean_pnl unchanged.
MultiAnalyzeTrader(f) ==
    LET raw == f.rows
        numeric == PnlColumnIsNumeric(raw)
        cleaned(k) == IF numeric THEN float(raw[k].pnl) ELSE clean_pnl(raw[k].pnl)
    IN
    IF \E k \in 1..Len(raw) : ~cleaned(k).ok
    THEN [ok |-> FALSE, exc |-> "ValueError"]
    ELSE
    LET df == [k \in 1..Len(raw) |->
                 [root |-> extract_root_symbol(raw[k].symbol),
                  pnl |-> cleaned(k).v,
                  qty |-> raw[k].qty,
                  boughtTimestamp |-> raw[k].boughtTimestamp]]
        bought == {df[k].boughtTimestamp : k \in 1..Len(df)}
        first_trade_date == Min(bought)
        last_trade_date == Max(bought)
        account_age == (last_trade_date - first_trade_date) \div SlotsPerDay
    IN  [ok |-> TRUE,
         value |->
           [AvgLossPerAsset |-> MeanPerAsset(Losing(df), "pnl"),
            AvgWinPerAsset |-> MeanPerAsset(Winning(df), "pnl"),
            AvgSizePerTradePerAsset |-> MeanPerAsset(df, "qty"),
            WinningDays |-> DaysMetric(Winning(df)),
            LosingDays |-> DaysMetric(Losing(df)),
            AccountAge |-> account_age]]

----------------------------------------------------------------------------
(* risk_analyzer: the batch loop and the fleet summary                     *)

\* The append without its `if result:` guard.
AppendResultAlways(rs, r) == Append(rs, r.ret)

\* if result: results.append(result)
AppendResult(rs, r) == IF r.ret # None THEN Append(rs, r.ret) ELSE rs

\* The frame without the qualifies filter.
QualifiedAll(rs) == rs

\* qualified = df[df['qualifies']]
Qualified(rs) == SelectSeq(rs, LAMBDA r : r.qualifies)

\* The key metrics of the fleet, computed when results is not empty.
FleetSummary(rs) ==
    LET qualified == Qualified(rs)
        total_bonus_c == SumSeq(Column(qualified, "bonus_cost_c"))
        total_profit_share_c == SumSeq(Column(qualified, "company_profit_c"))
    IN  [n_qualified |-> Len(qualified),
         n_traders |-> Len(rs),
         total_bonus_c |-> total_bonus_c,
         total_profit_share_c |-> total_profit_share_c,
         net_exposure_c |-> total_bonus_c - total_profit_share_c,
         avg_roi |-> RatMean(Column(qualified, "roi"))]

----------------------------------------------------------------------------
(* multi_trader_analyzer.main: the aggregation over all_metrics            *)

\* The per-asset lists of the traders' means, then np.mean of each list.
CombinePerAsset(ms, field) ==
    LET assets == UNION {DOMAIN ms[k][field] : k \in 1..Len(ms)}
        having(a) == SelectSeq(ms, LAMBDA m : a \in DOMAIN m[field])
    IN  [a \in assets |->
            RatMean([k \in 1..Len(having(a)) |-> having(a)[k][field][a]])]

\* np.mean([m[field] for m in all_metrics if not np.isnan(m[field])])
MeanSkippingNaN(ms, field) ==
    RatMean(Column(SelectSeq(ms, LAMBDA m : m[field] # NaN), field))

Aggregate(ms) ==
    [AvgLossPerAsset |-> CombinePerAsset(ms, "AvgLossPerAsset"),
     AvgWinPerAsset |-> CombinePerAsset(ms, "AvgWinPerAsset"),
     AvgSizePerTradePerAsset |-> CombinePerAsset(ms, "AvgSizePerTradePerAsset"),
     AvgWinningDays |-> MeanSkippingNaN(ms, "WinningDays"),
     AvgLosingDays |-> MeanSkippingNaN(ms, "LosingDays"),
     AvgAccountAge |-> Mean(Column(ms, "AccountAge"))]

----------------------------------------------------------------------------
(* Inputs                                                                  *)

SymbolAlphabet == {"N", "Z", "1", "5"}
PnlAlphabet    == {"$", ",", "(", ")", "-", "0", "1", "5"}

\* The sidebar's sliders, a few positions of each: the bonus percentage at its
\* minimum, default and maximum, the two targets in percent.  The minimum of
\* profitable days (3..20 on the slider) is scaled down to the files of the
\* model, which have at most MaxRows sold dates.
BonusChoices   == {5, 20, 50}
MinDaysChoices == {1, 2}
DailyChoices   == {5, 10}
TotalChoices   == {10, 50}

SymNZ5 == <<"N", "Z", "5">>

\* Rows of risk_analyzer's input: the columns it reads are pnl, soldTimestamp,
\* qty and buyPrice.
RiskRows ==
    { Row(SymNZ5, 1, 100, Ts(0, 0), Ts(0, 0), <<"$", "1", "0">>),
      Row(SymNZ5, 1, 100, Ts(0, 0), Ts(0, 1), <<"$", "5">>),
      Row(SymNZ5, 2, 100, Ts(0, 0), Ts(1, 0), <<"$", "5", "0">>),
      Row(SymNZ5, 1, 100, Ts(0, 0), Ts(1, 1), <<"(", "5", ")">>),
      Row(SymNZ5, 1, 100, Ts(0, 0), NaT,      <<"$", "5", "0">>),
      Row(SymNZ5, 1, 100, Ts(0, 0), Ts(0, 0), <<"1", "0">>),
      Row(SymNZ5, 1, 100, Ts(0, 0), Ts(0, 0), <<"$">>),
      Row(SymNZ5, 1, -100, Ts(0, 0), Ts(0, 0), <<"-", "$", "1", "0">>),
      Row(SymNZ5, 1, -100, Ts(0, 0), Ts(1, 0), <<"-", "$", "1", "0">>) }

NonEmptySeqs(S, n) == UNION {[1..k -> S] : k \in 1..n}

FileA == <<"a", ".", "c", "s", "v">>

TraderFiles == {[name |-> FileA, rows |-> rs] : rs \in NonEmptySeqs(RiskRows, MaxRows)}

\* Rows of multi_trader_analyzer's input: the columns it reads are symbol, pnl,
\* boughtTimestamp and qty (soldTimestamp is parsed and not read again).
MultiRows ==
    { Row(SymNZ5, 1, 100, Ts(0, 0), Ts(0, 1), <<"$", "5", "0">>),
      Row(SymNZ5, 2, 100, Ts(0, 1), Ts(0, 1), <<"(", "1", "0", ")">>),
      Row(<<"Z", "N", "1">>, 1, 100, Ts(0, 0), Ts(1, 0), <<"$", "1", "0">>),
      Row(<<"Z", "N", "1">>, 1, 100, Ts(1, 0), Ts(1, 1), <<"(", "$", "5", "0", ")">>),
      Row(<<"N", "1", "Z", "5">>, 2, 100, Ts(1, 1), Ts(1, 1), <<"1", "0">>),
      Row(SymNZ5, 1, 100, Ts(1, 0), Ts(1, 0), <<"-", "5">>),
      Row(SymNZ5, 1, 100, Ts(0, 0), NaT,      <<"$", "0">>),
      Row(SymNZ5, 1, 100, Ts(0, 0), Ts(0, 0), <<"$">>),
      Row(SymNZ5, 1, 100, Ts(0, 0), Ts(0, 0), <<"(", "5">>) }

MultiFiles == {[name |-> FileA, rows |-> rs] : rs \in NonEmptySeqs(MultiRows, MaxRows)}

\* The files of an upload, by script.
Name(c) == <<c, ".", "c", "s", "v">>

RiskUploads ==
    { [name |-> Name("a"),
       rows |-> << Row(SymNZ5, 1, 100, Ts(0, 0), Ts(0, 0), <<"$", "1", "0">>),
                   Row(SymNZ5, 2, 100, Ts(0, 0), Ts(1, 0), <<"$", "5", "0">>) >>],
      [name |-> Name("b"),
       rows |-> << Row(SymNZ5, 1, 100, Ts(0, 0), Ts(0, 0), <<"$", "1", "0">>) >>],
      [name |-> Name("c"),
       rows |-> << Row(SymNZ5, 1, 100, Ts(0, 0), Ts(1, 1), <<"(", "5", ")">>) >>],
      [name |-> Name("d"),
       rows |-> << Row(SymNZ5, 1, 100, Ts(0, 0), Ts(0, 0), <<"$", "1", "0">>),
                   Row(SymNZ5, 1, 100, Ts(0, 0), Ts(0, 0), <<"$">>) >>],
      [name |-> Name("e"),
       rows |-> << Row(SymNZ5, 1, 100, Ts(0, 0), Ts(0, 0), <<"1", "0">>) >>] }

MultiUploads ==
    { [name |-> Name("a"),
       rows |-> << Row(SymNZ5, 1, 100, Ts(0, 0), Ts(0, 1), <<"$", "5", "0">>),
                   Row(SymNZ5, 2, 100, Ts(0, 1), Ts(0, 1), <<"(", "1", "0", ")">>) >>],
      [name |-> Name("b"),
       rows |-> << Row(<<"Z", "N", "1">>, 1, 100, Ts(1, 0), Ts(1, 1),
                       <<"(", "$", "5", "0", ")">>) >>],
      [name |-> Name("c"),
       rows |-> << Row(<<"N", "1", "Z", "5">>, 2, 100, Ts(1, 1), Ts(1, 1), <<"1", "0">>) >>],
      [name |-> Name("d"),
       rows |-> << Row(SymNZ5, 1, 100, Ts(0, 0), Ts(0, 0), <<"(", "5">>) >>] }

Apps == {"risk_analyzer", "multi_trader_analyzer"}

Uploads(a) == IF a = "risk_analyzer" THEN RiskUploads ELSE MultiUploads

----------------------------------------------------------------------------
(* Idle values of the variables a specification does not use               *)

SymbolIdle == symbol = <<>> /\ roots = <<>>
PnlIdle    == pnl_raw = <<>> /\ pnl_multi = None /\ pnl_risk = None
TraderIdle == /\ file = None /\ min_days = 0 /\ daily_threshold = 0
              /\ total_threshold = 0 /\ result = None /\ prev = None
MultiIdle  == trades = None /\ metrics = None
BatchIdle  == /\ app = "" /\ uploaded_files = <<>> /\ min_profit_days = 0
              /\ daily_profit_target = 0 /\ total_profit_target = 0
              /\ i = 0 /\ results = <<>> /\ all_metrics = <<>> /\ errors = <<>>
              /\ summary = None /\ pc = ""

----------------------------------------------------------------------------
(* SpecSymbol: extract_root_symbol applied to a symbol, then to its result  *)

InitSymbol ==
    /\ symbol \in Strings(SymbolAlphabet, MaxSymLen)
    /\ roots = <<>>
    /\ PnlIdle /\ TraderIdle /\ MultiIdle /\ BatchIdle /\ bonus_pct = 0

ExtractRoot ==
    /\ Len(roots) < 2
    /\ roots' = Append(roots, extract_root_symbol(IF roots = <<>> THEN symbol
                                                  ELSE roots[Len(roots)]))
    /\ UNCHANGED <<symbol, pnlVars, traderVars, multiVars, bonus_pct, batchVars>>

NextSymbol == ExtractRoot
SpecSymbol == InitSymbol /\ [][NextSymbol]_vars

----------------------------------------------------------------------------
(* SpecPnl: one currency string through the two cleaners                   *)

InitPnl ==
    /\ pnl_raw \in Strings(PnlAlphabet, MaxPnlLen)
    /\ pnl_multi = None /\ pnl_risk = None
    /\ SymbolIdle /\ TraderIdle /\ MultiIdle /\ BatchIdle /\ bonus_pct = 0

CleanPnlMulti ==
    /\ pnl_multi = None
    /\ pnl_multi' = clean_pnl(pnl_raw)
    /\ UNCHANGED <<pnl_raw, pnl_risk, symbolVars, traderVars, multiVars,
                   bonus_pct, batchVars>>

CleanPnlRisk ==
    /\ pnl_risk = None
    /\ pnl_risk' = risk_clean_pnl(pnl_raw)
    /\ UNCHANGED <<pnl_raw, pnl_multi, symbolVars, traderVars, multiVars,
                   bonus_pct, batchVars>>

NextPnl == CleanPnlMulti \/ CleanPnlRisk
SpecPnl == InitPnl /\ [][NextPnl]_vars

----------------------------------------------------------------------------
(* SpecTrader: risk_analyzer.analyze_trader called on one file, the sidebar *)
(* moved, and the function called again                                    *)

InitTrader ==
    /\ file \in TraderFiles
    /\ min_days \in MinDaysChoices
    /\ daily_threshold \in DailyChoices
    /\ total_threshold \in TotalChoices
    /\ bonus_pct \in BonusChoices
    /\ result = None /\ prev = None
    /\ SymbolIdle /\ PnlIdle /\ MultiIdle /\ BatchIdle

\* result = analyze_trader(file, min_days, daily_threshold, total_threshold)
CallAnalyzeTrader ==
    /\ prev = None
    /\ result' = [min_days |-> min_days, daily_threshold |-> daily_threshold,
                  total_threshold |-> total_threshold,
                  ret |-> analyze_trader(file, min_days, daily_threshold,
                                         total_threshold).ret]
    /\ prev' = result
    /\ UNCHANGED <<file, min_days, daily_threshold, total_threshold, bonus_pct,
                   symbolVars, pnlVars, multiVars, batchVars>>

\* The sliders move between two calls (the daily target stays where it is).
MoveSliders(b, md, tt) ==
    /\ result # None /\ prev = None
    /\ bonus_pct' = b
    /\ min_days' = md
    /\ total_threshold' = tt
    /\ UNCHANGED <<file, daily_threshold, result, prev,
                   symbolVars, pnlVars, multiVars, batchVars>>

NextTrader ==
    \/ CallAnalyzeTrader
    \/ \E b \in BonusChoices, md \in MinDaysChoices, tt \in TotalChoices :
          MoveSliders(b, md, tt)
SpecTrader == InitTrader /\ [][NextTrader]_vars

----------------------------------------------------------------------------
(* SpecMulti: multi_trader_analyzer.analyze_trader called on one file      *)

InitMulti ==
    /\ trades \in MultiFiles
    /\ metrics = None
    /\ SymbolIdle /\ PnlIdle /\ TraderIdle /\ BatchIdle /\ bonus_pct = 0

\* metrics = analyze_trader(trades), or the exception it raised
CallMultiAnalyzeTrader ==
    /\ metrics = None
    /\ metrics' = MultiAnalyzeTrader(trades)
    /\ UNCHANGED <<trades, symbolVars, pnlVars, traderVars, bonus_pct, batchVars>>

NextMulti == CallMultiAnalyzeTrader
SpecMulti == InitMulti /\ [][NextMulti]_vars

----------------------------------------------------------------------------
(* Spec: one of the two scripts serving a session.  The state is the one    *)
(* after the script's first run, with nothing uploaded; an upload or a     *)
(* moved slider runs the script again from the top.                        *)

Init ==
    /\ app \in Apps
    /\ uploaded_files = <<>>
    /\ bonus_pct \in BonusChoices
    /\ min_profit_days \in MinDaysChoices
    /\ daily_profit_target \in DailyChoices
    /\ total_profit_target \in TotalChoices
    /\ i = 0 /\ results = <<>> /\ all_metrics = <<>> /\ errors = <<>>
    /\ summary = None
    /\ pc = "idle"
    /\ SymbolIdle /\ PnlIdle /\ TraderIdle /\ MultiIdle

otherVars == <<symbolVars, pnlVars, traderVars, multiVars>>

\* The script starts over: results = [] / all_metrics = [], nothing displayed yet.
StartRun ==
    /\ i' = 0 /\ results' = <<>> /\ all_metrics' = <<>> /\ errors' = <<>>
    /\ summary' = None
    /\ pc' = "loop"

\* st.file_uploader returns the files the user dropped.
Upload(fs) ==
    /\ pc = "idle" /\ uploaded_files = <<>>
    /\ uploaded_files' = fs
    /\ StartRun
    /\ UNCHANGED <<app, bonus_pct, sidebarVars, otherVars>>

\* A slider of risk_analyzer's sidebar is moved.
MoveSidebar(b, md, dt, tt) ==
    /\ app = "risk_analyzer"
    /\ pc = "idle" /\ uploaded_files # <<>>
    /\ <<b, md, dt, tt>> #
          <<bonus_pct, min_profit_days, daily_profit_target, total_profit_target>>
    /\ bonus_pct' = b
    /\ min_profit_days' = md
    /\ daily_profit_target' = dt
    /\ total_profit_target' = tt
    /\ StartRun
    /\ UNCHANGED <<app, uploaded_files, otherVars>>

\* risk_analyzer: one iteration of `for i, file in enumerate(uploaded_files)`
ProcessFile ==
    /\ app = "risk_analyzer"
    /\ pc = "loop" /\ i < Len(uploaded_files)
    /\ LET r == analyze_trader(uploaded_files[i + 1], min_profit_days,
                                daily_profit_target, total_profit_target)
       IN  /\ results' = AppendResult(results, r)
           /\ errors' = errors \o r.st_error
    /\ i' = i + 1
    /\ UNCHANGED <<app, uploaded_files, bonus_pct, sidebarVars, all_metrics,
                   summary, pc, otherVars>>

\* risk_analyzer: `if results:` and the metrics under it
ShowFleetSummary ==
    /\ app = "risk_analyzer"
    /\ pc = "loop" /\ i = Len(uploaded_files)
    /\ summary' = IF results # <<>> THEN FleetSummary(results) ELSE None
    /\ pc' = "idle"
    /\ UNCHANGED <<app, uploaded_files, bonus_pct, sidebarVars, i, results,
                   all_metrics, errors, otherVars>>

\* multi_trader_analyzer: one iteration of `for uploaded_file in uploaded_files`
MultiProcessFile ==
    /\ app = "multi_trader_analyzer"
    /\ pc = "loop" /\ i < Len(uploaded_files)
    /\ LET m == MultiAnalyzeTrader(uploaded_files[i + 1])
       IN  IF m.ok
           THEN all_metrics' = Append(all_metrics, m.value) /\ errors' = errors
           ELSE /\ all_metrics' = all_metrics
                /\ errors' = Append(errors, [file |-> uploaded_files[i + 1].name,
                                             exc |-> m.exc])
    /\ i' = i + 1
    /\ UNCHANGED <<app, uploaded_files, bonus_pct, sidebarVars, results,
                   summary, pc, otherVars>>

\* multi_trader_analyzer: `if all_metrics:` and the aggregation under it
ShowAggregated ==
    /\ app = "multi_trader_analyzer"
    /\ pc = "loop" /\ i = Len(uploaded_files)
    /\ summary' = IF all_metrics # <<>> THEN Aggregate(all_metrics) ELSE None
    /\ pc' = "idle"
    /\ UNCHANGED <<app, uploaded_files, bonus_pct, sidebarVars, i, results,
                   all_metrics, errors, otherVars>>

Next ==
    \/ \E fs \in NonEmptySeqs(Uploads(app), MaxFiles) : Upload(fs)
    \/ \E b \in BonusChoices, md \in MinDaysChoices, dt \in DailyChoices,
          tt \in TotalChoices : MoveSidebar(b, md, dt, tt)
    \/ ProcessFile
    \/ ShowFleetSummary
    \/ MultiProcessFile
    \/ ShowAggregated

Spec == Init /\ [][Next]_vars

----------------------------------------------------------------------------
(* Claims about extract_root_symbol (SpecSymbol)                           *)

\* C7: root-symbol extraction is idempotent: for every symbol over letters and
\* digits, extracting the root of the root gives the root again.
C7_Idempotent == Len(roots) = 2 => roots[2] = roots[1]

----------------------------------------------------------------------------
(* Claims about the PnL cleaners (SpecPnl)                                 *)

\* The strings "(d)" and "($d)" with d a string of digits, and the number d.
IsParenForm(s) ==
    /\ Len(s) >= 3 /\ s[1] = "(" /\ s[Len(s)] = ")"
    /\ \/ IsDigitString(SubSeq(s, 2, Len(s) - 1))
       \/ s[2] = "$" /\ IsDigitString(SubSeq(s, 3, Len(s) - 1))
ParenMagnitude(s) ==
    DigitsValue(SelectSeq(s, LAMBDA c : c \in Digits))

\* C4: a value wrapped in parentheses is negative in both analyzers: for
\* "($d)" and "(d)" both cleaners return -d, hence the same number.
C4_ParenthesesNegative ==
    (IsParenForm(pnl_raw) /\ pnl_multi # None /\ pnl_risk # None) =>
        /\ pnl_multi = [ok |-> TRUE, v |-> 0 - ParenMagnitude(pnl_raw)]
        /\ pnl_risk = [ok |-> TRUE, v |-> 0 - ParenMagnitude(pnl_raw)]

----------------------------------------------------------------------------
(* Claims about risk_analyzer.analyze_trader (SpecTrader)                  *)

RECURSIVE SumOver(_, _)
SumOver(S, f) ==
    IF S = {} THEN 0
    ELSE LET x == CHOOSE y \in S : TRUE IN f[x] + SumOver(S \ {x}, f)

Returned == result # None /\ result.ret # None

\* What the claims say about a file, stated on its rows.
RowIdx       == 1..Len(file.rows)
CleanedPnl   == [k \in RowIdx |-> risk_clean_pnl(file.rows[k].pnl).v]
SoldDays     == {date(file.rows[k].soldTimestamp) : k \in RowIdx} \ {NaT}
DayPnl       == [d \in SoldDays |->
                   SumOver({k \in RowIdx : date(file.rows[k].soldTimestamp) = d},
                           CleanedPnl)]
MaxPosition  == CHOOSE m \in {file.rows[k].qty * file.rows[k].buyPrice : k \in RowIdx} :
                   \A k \in RowIdx : file.rows[k].qty * file.rows[k].buyPrice <= m
QualifyingDays(dt) == {d \in SoldDays : DayPnl[d] * 100 >= MaxPosition * dt}

\* C1: net_cost is never negative: max(bonus_cost - company_profit, 0) for a
\* qualifying trader and 0 otherwise, for every bonus percentage of the slider.
C1_NetCostNeverNegative ==
    Returned =>
        LET r == result.ret
            d == r.bonus_cost_c - r.company_profit_c
        IN  /\ r.net_cost_c >= 0
            /\ r.net_cost_c = IF r.qualifies /\ d > 0 THEN d ELSE 0

\* C2: qualifies is true iff the number of sold-date days whose summed PnL is at
\* least initialBalance x dailyThreshold is at least minDays and the sum of all
\* daily PnL is at least initialBalance x totalThreshold, initialBalance being
\* the largest qty x buyPrice of the file; a day exactly at the required daily
\* profit counts.
C2_QualifiesIff ==
    Returned =>
        (result.ret.qualifies <=>
            /\ Cardinality(QualifyingDays(result.daily_threshold)) >= result.min_days
            /\ SumOver(SoldDays, DayPnl) * 100
                   >= MaxPosition * result.total_threshold)

\* C2's case: a qualifying trader with exactly min_days qualifying days, one of
\* them exactly at the required daily profit.
C2_Witness ==
    /\ Returned /\ result.ret.qualifies
    /\ Cardinality(QualifyingDays(result.daily_threshold)) = result.min_days
    /\ \E d \in SoldDays : DayPnl[d] * 100 = MaxPosition * result.daily_threshold
    /\ result.min_days = 2

TwoCalls == prev # None /\ result # None /\ prev.ret # None /\ result.ret # None

\* C3: qualification is monotonic: a trader who does not qualify for
\* (minDays, totalThreshold) does not qualify for any (minDays', totalThreshold')
\* with minDays' >= minDays and totalThreshold' >= totalThreshold.
C3_Monotonic ==
    (/\ TwoCalls
     /\ result.min_days >= prev.min_days
     /\ result.total_threshold >= prev.total_threshold
     /\ ~prev.ret.qualifies) => ~result.ret.qualifies

\* C6: grouping by sold date loses nothing: total_profit, the sum of the per-day
\* sums, is the sum of the cleaned PnL of all rows, and the per-day trade counts
\* add up to the number of rows.
C6_GroupingNonLossy ==
    Returned =>
        LET daily == GroupBySoldDate([k \in RowIdx |-> date(file.rows[k].soldTimestamp)],
                                     CleanedPnl)
        IN  /\ result.ret.total_profit = SumOver(RowIdx, CleanedPnl)
            /\ SumSeq(Column(daily, "daily_pnl")) = SumOver(RowIdx, CleanedPnl)
            /\ SumSeq(Column(daily, "trades")) = Len(file.rows)

\* C9: analyze_trader is a pure function of its explicit inputs: two calls with
\* the same file and the same (min_days, daily_threshold, total_threshold)
\* return the same result, whatever happened to the bonus percentage between.
C9_PureFunction ==
    (/\ prev # None /\ result # None
     /\ prev.min_days = result.min_days
     /\ prev.daily_threshold = result.daily_threshold
     /\ prev.total_threshold = result.total_threshold) => prev.ret = result.ret

----------------------------------------------------------------------------
(* Claims about multi_trader_analyzer.analyze_trader (SpecMulti)           *)

TradeIdx == 1..Len(trades.rows)
TradePnl == [k \in TradeIdx |->
               (IF PnlColumnIsNumeric(trades.rows) THEN float(trades.rows[k].pnl)
                ELSE clean_pnl(trades.rows[k].pnl)).v]
TradeSoldDays == {date(trades.rows[k].soldTimestamp) : k \in TradeIdx} \ {NaT}
SoldDayNet == [d \in TradeSoldDays |->
                 SumOver({k \in TradeIdx : date(trades.rows[k].soldTimestamp) = d},
                         TradePnl)]
MeanOverDays(D) ==
    IF D = {} THEN NaN ELSE Rat(SumOver(D, SoldDayNet), Cardinality(D))

\* C8: 'Winning Days' is the mean, over the calendar days of the sold timestamp
\* whose summed PnL of all the day's trades is > 0, of that per-day sum, and
\* 'Losing Days' the same over the days whose sum is < 0: a day is classified by
\* its net sum.
C8_DaysByNetSum ==
    (metrics # None /\ metrics.ok) =>
        /\ metrics.value.WinningDays =
              MeanOverDays({d \in TradeSoldDays : SoldDayNet[d] > 0})
        /\ metrics.value.LosingDays =
              MeanOverDays({d \in TradeSoldDays : SoldDayNet[d] < 0})

----------------------------------------------------------------------------
(* Claims about the batch runs (Spec)                                      *)

Processed == SubSeq(uploaded_files, 1, i)

\* Whether reading or analysing file f raises, under the sidebar as it stands.
Fails(f) ==
    IF app = "risk_analyzer"
    THEN ~AnalyzeTraderBody(f, min_profit_days, daily_profit_target,
                            total_profit_target).ok
    ELSE ~MultiAnalyzeTrader(f).ok

Succeeded == SelectSeq(Processed, LAMBDA f : ~Fails(f))
Failed    == SelectSeq(Processed, LAMBDA f : Fails(f))

\* C5: per-file failure isolation: whatever subset of the uploaded files fails,
\* every file after a failing one is still processed, the result list holds
\* exactly one entry for each file that succeeded, in upload order, and none for
\* a failing file, and each failing file has exactly one error report, which
\* names it.
C5_FailureIsolation ==
    /\ (pc = "idle" /\ uploaded_files # <<>>) => i = Len(uploaded_files)
    /\ Column(errors, "file") = Column(Failed, "name")
    /\ app = "risk_analyzer" =>
          /\ Len(results) = Len(Succeeded)
          /\ \A k \in 1..Len(results) :
                /\ results[k] # None
                /\ results[k].trader = BeforeDot(Succeeded[k].name)
                /\ results[k] = AnalyzeTraderBody(Succeeded[k], min_profit_days,
                                   daily_profit_target, total_profit_target).value
    /\ app = "multi_trader_analyzer" =>
          all_metrics = [k \in 1..Len(Succeeded) |->
                            MultiAnalyzeTrader(Succeeded[k]).value]

\* C5's case: a run that is over, in which the first file failed and the one
\* after it succeeded.
C5_Witness ==
    /\ app = "risk_analyzer" /\ pc = "idle" /\ Len(uploaded_files) = 2
    /\ Fails(uploaded_files[1]) /\ ~Fails(uploaded_files[2])
    /\ Len(results) = 1 /\ Len(errors) = 1

RECURSIVE ProdOver(_, _)
ProdOver(S, f) ==
    IF S = {} THEN 1
    ELSE LET x == CHOOSE y \in S : TRUE IN f[x] * ProdOver(S \ {x}, f)

QualifyingIdx == {k \in 1..Len(results) : results[k].qualifies}

\* The sum of the qualifying traders' roi, over the product of their denominators.
RoiDen == ProdOver(QualifyingIdx, [k \in QualifyingIdx |-> results[k].roi.den])
RoiNum == SumOver(QualifyingIdx,
                  [k \in QualifyingIdx |->
                      results[k].roi.num * (RoiDen \div results[k].roi.den)])

\* C10: after the batch loop the qualifying-subset metrics are computed from the
\* results with qualifies = true only: total bonus liability is the sum of their
\* bonus_cost, total company profit share the sum of their company_profit, net
\* exposure the difference, average ROI the mean of their roi.
C10_QualifyingSubsetMetrics ==
    (app = "risk_analyzer" /\ pc = "idle" /\ summary # None) =>
        /\ summary.total_bonus_c =
              SumOver(QualifyingIdx, [k \in QualifyingIdx |-> results[k].bonus_cost_c])
        /\ summary.total_profit_share_c =
              SumOver(QualifyingIdx, [k \in QualifyingIdx |-> results[k].company_profit_c])
        /\ summary.net_exposure_c =
              summary.total_bonus_c - summary.total_profit_share_c
        /\ IF QualifyingIdx = {} THEN summary.avg_roi = NaN
           ELSE summary.avg_roi = Rat(RoiNum, RoiDen * Cardinality(QualifyingIdx))

\* C10's case: a summary over a fleet with a qualifying trader, whose roi is not
\* zero, and a trader who does not qualify.
C10_Witness ==
    /\ app = "risk_analyzer" /\ pc = "idle" /\ summary # None
    /\ \E k \in 1..Len(results) : results[k].qualifies /\ results[k].roi.num # 0
    /\ \E k \in 1..Len(results) : ~results[k].qualifies

====
